---- MODULE Spec2Model ----
(***************************************************************************)
(* JSONScraperMultiGraph (scrapegraphai/graphs/json_scraper_multi_graph.py) *)
(*                                                                         *)
(* The object is built from a prompt, a list of JSON sources, a config     *)
(* mapping and an optional schema.  Construction deep-copies the config,   *)
(* runs the base-class initialisation and wires a two-node graph           *)
(* (GraphIteratorNode -> MergeAnswersNode).  run() hands the prompt and    *)
(* the sources to the graph's execute and reads "answer" from the result.  *)
(*                                                                         *)
(* Python objects live in a heap (object id -> contents) so that aliasing  *)
(* and copying are distinguishable.  Python values are tagged records:     *)
(* [str |-> s], [int |-> n], [bool |-> b], [none |-> TRUE], [ref |-> id],  *)
(* [dict |-> m].                                                           *)
(***************************************************************************)
EXTENDS Integers, Sequences, FiniteSets, TLC

VARIABLES
    pc,         \* "new" before __init__, "ready" between calls, "running" inside execute
    heap,       \* object id -> contents (a mapping for a dict, a sequence for a list)
    self,       \* attribute name -> value, the attributes of the JSONScraperMultiGraph
    given,      \* the constructor's arguments as they were at the call (history)
    last,       \* outcome of the most recent run() call (history)
    runs,       \* number of run() calls made (history)
    execCalls,  \* number of graph.execute calls made (history)
    lastCall,   \* the most recent execute call: its inputs and what it did (history)
    lastExec,   \* the pair returned by the most recent successful execute (history)
    muts,       \* number of entries the caller appended to its source list after construction (history)
    eng         \* the execution engine's state while it executes the graph

vars == <<pc, heap, self, given, last, runs, execCalls, lastCall, lastExec, muts, eng>>

-----------------------------------------------------------------------------
(* Bounds of the model *)

MaxSources == 2     \* longest source list
MaxRuns == 2        \* run() calls per behaviour
MaxMutations == 1   \* entries the caller appends to its source list after construction

-----------------------------------------------------------------------------
(* Python values *)

Str(s) == [str |-> s]
IntV(n) == [int |-> n]
BoolV(b) == [bool |-> b]
NoneV == [none |-> TRUE]
Ref(id) == [ref |-> id]
DictV(m) == [dict |-> m]

IsRef(v) == "ref" \in DOMAIN v
IsStr(v) == "str" \in DOMAIN v

EmptyMap == [k \in {} |-> NoneV]

\* dict.get(key, default)
Get(m, key, default) == IF key \in DOMAIN m THEN m[key] ELSE default

\* d[key] = value on a mapping
Put(m, key, value) == [k \in DOMAIN m \cup {key} |-> IF k = key THEN value ELSE m[k]]

\* The objects reachable from the objects ids through references.
RECURSIVE Reach(_, _)
Reach(h, ids) ==
    LET next == ids \cup {h[o][k].ref : <<o, k>> \in
                    {ok \in ids \X UNION {DOMAIN h[o] : o \in ids} :
                        /\ ok[2] \in DOMAIN h[ok[1]]
                        /\ IsRef(h[ok[1]][ok[2]])}}
    IN IF next = ids THEN ids ELSE Reach(h, next)

\* The value of an object with every reference replaced by the value it points to.
RECURSIVE DeepValue(_, _)
DeepValue(h, id) ==
    [k \in DOMAIN h[id] |->
        IF IsRef(h[id][k]) THEN DictV(DeepValue(h, h[id][k].ref)) ELSE h[id][k]]

-----------------------------------------------------------------------------
(* Inputs *)

Prompts == {"p1", "p2"}
Sources == {"a.json", "b.json"}
SourceLists == UNION {[1..n -> {Str(s) : s \in Sources}] : n \in 0..MaxSources}
LateSources == {"c.json"}
Schemas == {NoneV, [schema |-> "S1"]}

\* The caller's config: a dict holding a nested "llm" dict, with or without
\* "max_results" and with or without "temperature" in the nested dict.
LlmDicts == {("model" :> Str("m1")),
             ("model" :> Str("m1")) @@ ("temperature" :> IntV(1))}
ConfigDicts == {("llm" :> Ref("llm")),
                ("llm" :> Ref("llm")) @@ ("max_results" :> IntV(5))}

BaseMutations == {"none", "default_temperature", "set_verbose"}

-----------------------------------------------------------------------------
(* Collaborators of the constructor *)

CopyOf(id) == "copy_" \o id

\* safe_deepcopy(obj): fresh objects for obj and for everything it refers to,
\* with equal contents; the references of the copies point to the copies.
SafeDeepcopy(h, id) ==
    LET objs == Reach(h, {id})
        orig(c) == CHOOSE o \in objs : CopyOf(o) = c
    IN h @@ [c \in {CopyOf(o) : o \in objs} |->
                [k \in DOMAIN h[orig(c)] |->
                    IF IsRef(h[orig(c)][k])
                    THEN Ref(CopyOf(h[orig(c)][k].ref))
                    ELSE h[orig(c)][k]]]

\* deepcopy(schema): a schema is None or a model class; the copy is equal to it.
Deepcopy(schema) == schema

\* What the base-class initialisation does to the config object it is handed:
\* nothing, default the nested temperature, or set a top-level option.
BaseConfigMutation(h, config, mut) ==
    LET llm == h[config.ref]["llm"].ref
    IN CASE mut = "default_temperature" ->
                IF "temperature" \in DOMAIN h[llm] THEN h
                ELSE [h EXCEPT ![llm] = Put(h[llm], "temperature", IntV(0))]
         [] mut = "set_verbose" ->
                [h EXCEPT ![config.ref] = Put(h[config.ref], "verbose", BoolV(FALSE))]
         [] OTHER -> h

-----------------------------------------------------------------------------
(* _create_graph *)

DefaultMaxResults == 3
FallbackAnswer == Str("No answer found.")

\* Variant: the iterator node is handed the caller's config object itself.
GraphIteratorNode_CallerConfig(s) ==
    [node_name |-> "graph_iterator_node",
     node_class |-> "GraphIteratorNode",
     input |-> <<"user_prompt", "jsons">>,
     output |-> <<"results">>,
     node_config |-> [graph_instance |-> "JSONScraperGraph",
                      scraper_config |-> s["config"]],
     schema |-> s["copy_schema"]]

GraphIteratorNode(s) ==
    [node_name |-> "graph_iterator_node",
     node_class |-> "GraphIteratorNode",
     input |-> <<"user_prompt", "jsons">>,        \* "user_prompt & jsons"
     output |-> <<"results">>,
     node_config |-> [graph_instance |-> "JSONScraperGraph",
                      scraper_config |-> s["copy_config"]],
     schema |-> s["copy_schema"]]

\* Variant: the merge node asks for a key no node writes.
MergeAnswersNode_WrongInput(s) ==
    [node_name |-> "merge_answers_node",
     node_class |-> "MergeAnswersNode",
     input |-> <<"user_prompt", "answers">>,
     output |-> <<"answer">>,
     node_config |-> [llm_model |-> s["llm_model"],
                      schema |-> s["copy_schema"]]]

MergeAnswersNode(s) ==
    [node_name |-> "merge_answers_node",
     node_class |-> "MergeAnswersNode",
     input |-> <<"user_prompt", "results">>,      \* "user_prompt & results"
     output |-> <<"answer">>,
     node_config |-> [llm_model |-> s["llm_model"],
                      schema |-> s["copy_schema"]]]

\* Variant: the nodes are not connected.
CreateGraph_NoEdge(s) ==
    LET graph_iterator_node == GraphIteratorNode(s)
        merge_answers_node == MergeAnswersNode(s)
    IN [nodes |-> <<graph_iterator_node, merge_answers_node>>,
        edges |-> << >>,
        entry_point |-> graph_iterator_node.node_name,
        graph_name |-> "JSONScraperMultiGraph"]

\* Variant: an edge back from the merge node to the iterator node as well.
CreateGraph_BackEdge(s) ==
    LET graph_iterator_node == GraphIteratorNode(s)
        merge_answers_node == MergeAnswersNode(s)
    IN [nodes |-> <<graph_iterator_node, merge_answers_node>>,
        edges |-> << <<graph_iterator_node.node_name, merge_answers_node.node_name>>,
                     <<merge_answers_node.node_name, graph_iterator_node.node_name>> >>,
        entry_point |-> graph_iterator_node.node_name,
        graph_name |-> "JSONScraperMultiGraph"]

CreateGraph(s) ==
    LET graph_iterator_node == GraphIteratorNode(s)
        merge_answers_node == MergeAnswersNode(s)
    IN [nodes |-> <<graph_iterator_node, merge_answers_node>>,
        edges |-> << <<graph_iterator_node.node_name, merge_answers_node.node_name>> >>,
        entry_point |-> graph_iterator_node.node_name,
        graph_name |-> "JSONScraperMultiGraph"]

-----------------------------------------------------------------------------
(* Construction *)

\* AbstractGraph.__init__(prompt, config, source, schema): stores its arguments,
\* may change the config it was handed, builds the llm model from the config,
\* builds the graph through _create_graph and clears the run results.
AbstractGraphInit(h, s, prompt, config, source, schema, mut) ==
    LET h1 == BaseConfigMutation(h, config, mut)
        s1 == [a \in DOMAIN s \cup {"prompt", "source", "config", "schema", "llm_model"} |->
                CASE a = "prompt" -> prompt
                  [] a = "source" -> source
                  [] a = "config" -> config
                  [] a = "schema" -> schema
                  [] a = "llm_model" -> DictV(h1[h1[config.ref]["llm"].ref])
                  [] OTHER -> s[a]]
        s2 == Put(s1, "graph", CreateGraph(s1))
    IN [heap |-> h1,
        self |-> Put(Put(s2, "final_state", NoneV), "execution_info", NoneV)]

\* JSONScraperMultiGraph.__init__(prompt, source, config, schema)
JSONScraperMultiGraphInit(h, prompt, source, config, schema, mut) ==
    LET s1 == Put(EmptyMap, "max_results",
                  Get(h[config.ref], "max_results", IntV(DefaultMaxResults)))
        h2 == SafeDeepcopy(h, config.ref)
        s2 == Put(s1, "copy_config", Ref(CopyOf(config.ref)))
        s3 == Put(s2, "copy_schema", Deepcopy(schema))
    IN AbstractGraphInit(h2, s3, prompt, config, source, schema, mut)

-----------------------------------------------------------------------------
(* run *)

\* What graph.execute can do: return a pair (final state, execution info) or fail.
ResultValues == {Str("a1"), Str(""), NoneV, DictV("k" :> Str("v")), FallbackAnswer}
ResultMappings == {EmptyMap} \cup {("answer" :> v) : v \in ResultValues}
ExecutionInfos == {[info |-> "i1"], [info |-> "i2"]}
ExecOutcomes ==
    {[ok |-> TRUE, final_state |-> m, execution_info |-> i] :
        m \in ResultMappings, i \in ExecutionInfos}
    \cup {[ok |-> FALSE, error |-> [exc |-> "ExecutionError"]]}

\* Variant: the two values under each other's key.
RunInputs_Swapped(s) == ("user_prompt" :> s["source"]) @@ ("jsons" :> s["prompt"])

\* inputs = {"user_prompt": self.prompt, "jsons": self.source}
RunInputs(s) == ("user_prompt" :> s["prompt"]) @@ ("jsons" :> s["source"])

\* The input mapping as execute sees it: a list argument is the list object itself,
\* so execute sees the entries the object holds at the call.
InputsSeen(h, inputs) ==
    [k \in DOMAIN inputs |-> IF IsRef(inputs[k]) THEN [list |-> h[inputs[k].ref]]
                                                 ELSE inputs[k]]

\* Variant: a missing or falsy answer is replaced by the fallback
\* (final_state.get("answer") or "No answer found.").
RunMethod_OrFallback(s, o) ==
    LET inputs == RunInputs(s)
    IN IF o.ok
       THEN LET s1 == Put(Put(s, "final_state", DictV(o.final_state)),
                          "execution_info", o.execution_info)
                v == Get(s1["final_state"].dict, "answer", NoneV)
            IN [calls |-> <<inputs>>,
                self |-> s1,
                outcome |-> [kind |-> "return",
                             value |-> IF v \in {NoneV, Str("")} THEN FallbackAnswer ELSE v]]
       ELSE [calls |-> <<inputs>>,
             self |-> s,
             outcome |-> [kind |-> "raise", value |-> o.error]]

\* Variant: a failure of execute is caught and answered with the fallback.
RunMethod_Swallow(s, o) ==
    LET inputs == RunInputs(s)
    IN IF o.ok
       THEN LET s1 == Put(Put(s, "final_state", DictV(o.final_state)),
                          "execution_info", o.execution_info)
            IN [calls |-> <<inputs>>,
                self |-> s1,
                outcome |-> [kind |-> "return",
                             value |-> Get(s1["final_state"].dict, "answer", FallbackAnswer)]]
       ELSE [calls |-> <<inputs>>,
             self |-> s,
             outcome |-> [kind |-> "return", value |-> FallbackAnswer]]

\* Variant: final_state is cleared before execute is called.
RunMethod_ClearFirst(s, o) ==
    LET inputs == RunInputs(s)
    IN IF o.ok
       THEN LET s1 == Put(Put(s, "final_state", DictV(o.final_state)),
                          "execution_info", o.execution_info)
            IN [calls |-> <<inputs>>,
                self |-> s1,
                outcome |-> [kind |-> "return",
                             value |-> Get(s1["final_state"].dict, "answer", FallbackAnswer)]]
       ELSE [calls |-> <<inputs>>,
             self |-> Put(s, "final_state", NoneV),
             outcome |-> [kind |-> "raise", value |-> o.error]]

\* Variant: the results are stored only while final_state is still None.
RunMethod_KeepFirst(s, o) ==
    LET inputs == RunInputs(s)
    IN IF o.ok
       THEN LET s1 == IF s["final_state"] = NoneV
                      THEN Put(Put(s, "final_state", DictV(o.final_state)),
                               "execution_info", o.execution_info)
                      ELSE s
            IN [calls |-> <<inputs>>,
                self |-> s1,
                outcome |-> [kind |-> "return",
                             value |-> Get(s1["final_state"].dict, "answer", FallbackAnswer)]]
       ELSE [calls |-> <<inputs>>,
             self |-> s,
             outcome |-> [kind |-> "raise", value |-> o.error]]

\* run(), given what the one call of graph.execute does (o): the calls made, the
\* attributes afterwards and the outcome of run() itself.
RunMethod(s, o) ==
    LET inputs == RunInputs(s)
    IN IF o.ok
       THEN LET s1 == Put(Put(s, "final_state", DictV(o.final_state)),
                          "execution_info", o.execution_info)
            IN [calls |-> <<inputs>>,
                self |-> s1,
                outcome |-> [kind |-> "return",
                             value |-> Get(s1["final_state"].dict, "answer", FallbackAnswer)]]
       ELSE [calls |-> <<inputs>>,
             self |-> s,
             outcome |-> [kind |-> "raise", value |-> o.error]]

-----------------------------------------------------------------------------
(* The object and its caller *)

IdleEngine == [pc |-> "idle"]

Init ==
    /\ pc = "new"
    /\ \E c \in ConfigDicts, l \in LlmDicts, src \in SourceLists :
         heap = ("config" :> c) @@ ("llm" :> l) @@ ("source" :> src)
    /\ self = EmptyMap
    /\ \E p \in Prompts, sch \in Schemas :
         given = [prompt |-> Str(p), schema |-> sch,
                  source |-> heap["source"], config |-> DeepValue(heap, "config")]
    /\ last = [kind |-> "none", value |-> NoneV]
    /\ runs = 0
    /\ execCalls = 0
    /\ lastCall = [none |-> TRUE]
    /\ lastExec = [none |-> TRUE]
    /\ muts = 0
    /\ eng = IdleEngine

\* JSONScraperMultiGraph(prompt, source, config, schema)
Construct(mut) ==
    /\ pc = "new"
    /\ LET r == JSONScraperMultiGraphInit(heap, given.prompt, Ref("source"),
                                          Ref("config"), given.schema, mut)
       IN /\ heap' = r.heap
          /\ self' = r.self
    /\ pc' = "ready"
    /\ UNCHANGED <<given, last, runs, execCalls, lastCall, lastExec, muts, eng>>

\* The effect of a finished run() on the object and on the history.
Finish(r, o) ==
    /\ self' = r.self
    /\ last' = r.outcome
    /\ runs' = runs + 1
    /\ execCalls' = execCalls + Len(r.calls)
    /\ lastCall' = IF r.calls = <<>> THEN lastCall
                   ELSE [inputs |-> InputsSeen(heap, r.calls[Len(r.calls)]), outcome |-> o]
    /\ lastExec' = IF o.ok THEN [final_state |-> o.final_state,
                                 execution_info |-> o.execution_info]
                   ELSE lastExec

\* graph.run(), with the execution engine as an oracle
Run(o) ==
    /\ pc = "ready"
    /\ runs < MaxRuns
    /\ Finish(RunMethod(self, o), o)
    /\ UNCHANGED <<pc, heap, given, muts, eng>>

\* The caller appends an entry to the list it passed as source.
CallerAppendSource(x) ==
    /\ pc = "ready"
    /\ muts < MaxMutations
    /\ heap' = [heap EXCEPT !["source"] = Append(@, Str(x))]
    /\ muts' = muts + 1
    /\ UNCHANGED <<pc, self, given, last, runs, execCalls, lastCall, lastExec, eng>>

Next ==
    \/ \E mut \in BaseMutations : Construct(mut)
    \/ \E o \in ExecOutcomes : Run(o)
    \/ \E x \in LateSources : CallerAppendSource(x)

Spec == Init /\ [][Next]_vars

-----------------------------------------------------------------------------
(* The config after construction: the caller keeps and may change the config it
   passed; the per-document sub-pipeline may change the scraper_config it is
   handed. *)

\* The scraper_config of the graph's iterator node
ScraperConfig == self["graph"].nodes[1].node_config.scraper_config

CallerOptions == {<<"verbose", BoolV(TRUE)>>, <<"max_results", IntV(7)>>}
CallerLlmOptions == {<<"temperature", IntV(2)>>, <<"model", Str("m2")>>}
ScraperOptions == {<<"verbose", BoolV(TRUE)>>}
ScraperLlmOptions == {<<"temperature", IntV(0)>>}

\* config[k] = v, by the caller
CallerSetOption(k, v) ==
    /\ pc = "ready"
    /\ heap' = [heap EXCEPT !["config"] = Put(@, k, v)]
    /\ heap' # heap
    /\ UNCHANGED <<pc, self, given, last, runs, execCalls, lastCall, lastExec, muts, eng>>

\* config["llm"][k] = v, by the caller
CallerSetLlmOption(k, v) ==
    /\ pc = "ready"
    /\ heap' = [heap EXCEPT ![heap["config"]["llm"].ref] = Put(@, k, v)]
    /\ heap' # heap
    /\ UNCHANGED <<pc, self, given, last, runs, execCalls, lastCall, lastExec, muts, eng>>

\* scraper_config[k] = v, by the sub-pipeline
ScraperSetOption(k, v) ==
    /\ pc = "ready"
    /\ heap' = [heap EXCEPT ![ScraperConfig.ref] = Put(@, k, v)]
    /\ heap' # heap
    /\ UNCHANGED <<pc, self, given, last, runs, execCalls, lastCall, lastExec, muts, eng>>

\* scraper_config["llm"][k] = v, by the sub-pipeline
ScraperSetLlmOption(k, v) ==
    /\ pc = "ready"
    /\ heap' = [heap EXCEPT ![heap[ScraperConfig.ref]["llm"].ref] = Put(@, k, v)]
    /\ heap' # heap
    /\ UNCHANGED <<pc, self, given, last, runs, execCalls, lastCall, lastExec, muts, eng>>

ConfigNext ==
    \/ \E mut \in BaseMutations : Construct(mut)
    \/ \E kv \in CallerOptions : CallerSetOption(kv[1], kv[2])
    \/ \E kv \in CallerLlmOptions : CallerSetLlmOption(kv[1], kv[2])
    \/ \E kv \in ScraperOptions : ScraperSetOption(kv[1], kv[2])
    \/ \E kv \in ScraperLlmOptions : ScraperSetLlmOption(kv[1], kv[2])

ConfigSpec == Init /\ [][ConfigNext]_vars

\* C5: scraper_config is a deep copy of the caller's config as it was when the
\* constructor was called: it shares no object with the caller's config, a change
\* to the caller's config (by the base class or by the caller) leaves it as it
\* was, and a change to it leaves the caller's config as it was.
C5_ScraperConfigIsolated ==
    [][/\ (pc = "new" /\ pc' = "ready") =>
              DeepValue(heap', ScraperConfig'.ref) = given.config
       /\ pc' = "ready" =>
              Reach(heap', {ScraperConfig'.ref}) \cap Reach(heap', {"config"}) = {}
       /\ pc = "ready" =>
              \/ DeepValue(heap', "config") = DeepValue(heap, "config")
              \/ DeepValue(heap', ScraperConfig.ref) = DeepValue(heap, ScraperConfig.ref)]_vars

\* The base class defaulted the temperature and the caller changed the nested
\* model, and scraper_config still is the config as it was given.
C5_Witness ==
    /\ pc = "ready"
    /\ "temperature" \notin DOMAIN given.config["llm"].dict
    /\ heap["llm"] = ("model" :> Str("m2")) @@ ("temperature" :> IntV(0))
    /\ DeepValue(heap, ScraperConfig.ref) = given.config

-----------------------------------------------------------------------------
(* The execution engine: graph.execute(inputs) runs the entry point and then
   follows the edges until a node has no successor.  A node runs only when the
   state holds every key its input names; it writes its output key.  The
   iterator node runs the per-document sub-pipeline once for each entry of
   "jsons", in any order, and writes the answers in the order of the sources;
   the merge node merges "results" into one answer. *)

NodeNames(g) == {g.nodes[i].node_name : i \in DOMAIN g.nodes}
EdgeSet(g) == {g.edges[i] : i \in DOMAIN g.edges}
Successors(g, n) == {e[2] : e \in {d \in EdgeSet(g) : d[1] = n}}

NodeNamed(g, n) == CHOOSE nd \in {g.nodes[i] : i \in DOMAIN g.nodes} : nd.node_name = n
InputKeys(nd) == {nd.input[i] : i \in DOMAIN nd.input}
HasSuccessor(g, n) == \E i \in DOMAIN g.edges : g.edges[i][1] = n
Successor(g, n) == g.edges[CHOOSE i \in DOMAIN g.edges : g.edges[i][1] = n][2]

\* The answer of the per-document sub-pipeline and the answer of the merge
DocumentAnswer(prompt, source) == [answer_to |-> prompt, from |-> source]
MergedAnswer(prompt, results) == [merged |-> results, answer_to |-> prompt]
EngineInfo == [info |-> "i1"]

CurrentNode == NodeNamed(self["graph"], eng.node)

\* The engine after the node that just ran: at its successor, or done.
Advance(e, g) ==
    IF HasSuccessor(g, e.node)
    THEN [e EXCEPT !.pc = "node", !.node = Successor(g, e.node)]
    ELSE [e EXCEPT !.pc = "done"]

\* run() builds the inputs and calls graph.execute
RunCall ==
    /\ pc = "ready"
    /\ runs < MaxRuns
    /\ pc' = "running"
    /\ eng' = [pc |-> "node",
               node |-> self["graph"].entry_point,
               state |-> InputsSeen(heap, RunInputs(self)),
               writer |-> [k \in DOMAIN RunInputs(self) |-> "run"],
               nodeRuns |-> [n \in NodeNames(self["graph"]) |-> 0],
               pending |-> {},
               docCalls |-> <<>>,
               answers |-> <<>>,
               error |-> NoneV]
    /\ UNCHANGED <<heap, self, given, last, runs, execCalls, lastCall, lastExec, muts>>

\* The engine's check before a node runs: a node whose input names a key the
\* state does not hold fails the execution.
MissingInput(e) == [e EXCEPT !.pc = "failed", !.error = [exc |-> "MissingInput"]]

\* The iterator node starts: one sub-pipeline run is due for every entry of "jsons".
IteratorStart ==
    /\ pc = "running" /\ eng.pc = "node"
    /\ CurrentNode.node_class = "GraphIteratorNode"
    /\ IF InputKeys(CurrentNode) \subseteq DOMAIN eng.state
       THEN LET jsons == eng.state[CurrentNode.input[2]].list
            IN eng' = [eng EXCEPT !.pc = "iterating",
                                  !.nodeRuns[eng.node] = @ + 1,
                                  !.pending = DOMAIN jsons,
                                  !.docCalls = [i \in DOMAIN jsons |-> <<>>],
                                  !.answers = [i \in DOMAIN jsons |-> NoneV]]
       ELSE eng' = MissingInput(eng)
    /\ UNCHANGED <<pc, heap, self, given, last, runs, execCalls, lastCall, lastExec, muts>>

\* The sub-pipeline answers the prompt from one of the sources not yet answered.
IterateDocument ==
    /\ pc = "running" /\ eng.pc = "iterating"
    /\ \E i \in eng.pending :
       LET prompt == eng.state[CurrentNode.input[1]]
           source == eng.state[CurrentNode.input[2]].list[i]
       IN eng' = [eng EXCEPT !.pending = @ \ {i},
                             !.docCalls[i] = Append(@, [prompt |-> prompt, source |-> source]),
                             !.answers[i] = DocumentAnswer(prompt, source)]
    /\ UNCHANGED <<pc, heap, self, given, last, runs, execCalls, lastCall, lastExec, muts>>

\* Every source is answered: the iterator node writes its output.
IteratorFinish ==
    /\ pc = "running" /\ eng.pc = "iterating"
    /\ eng.pending = {}
    /\ LET key == CurrentNode.output[1]
           e == [eng EXCEPT !.state = Put(@, key, [list |-> eng.answers]),
                            !.writer = Put(@, key, eng.node)]
       IN eng' = Advance(e, self["graph"])
    /\ UNCHANGED <<pc, heap, self, given, last, runs, execCalls, lastCall, lastExec, muts>>

\* The merge node merges the per-document answers into one answer.
MergeAnswers ==
    /\ pc = "running" /\ eng.pc = "node"
    /\ CurrentNode.node_class = "MergeAnswersNode"
    /\ IF InputKeys(CurrentNode) \subseteq DOMAIN eng.state
       THEN LET key == CurrentNode.output[1]
                answer == MergedAnswer(eng.state[CurrentNode.input[1]],
                                       eng.state[CurrentNode.input[2]])
                e == [eng EXCEPT !.nodeRuns[eng.node] = @ + 1,
                                 !.state = Put(@, key, answer),
                                 !.writer = Put(@, key, eng.node)]
            IN eng' = Advance(e, self["graph"])
       ELSE eng' = MissingInput(eng)
    /\ UNCHANGED <<pc, heap, self, given, last, runs, execCalls, lastCall, lastExec, muts>>

\* A sub-pipeline run or the merge fails: execute fails.
NodeFails ==
    /\ pc = "running" /\ eng.pc \in {"node", "iterating"}
    /\ eng.pc = "node" => InputKeys(CurrentNode) \subseteq DOMAIN eng.state
    /\ eng.pc = "iterating" => eng.pending # {}
    /\ eng' = [eng EXCEPT !.pc = "failed", !.error = [exc |-> "ExecutionError"]]
    /\ UNCHANGED <<pc, heap, self, given, last, runs, execCalls, lastCall, lastExec, muts>>

\* What execute hands back to run()
EngineOutcome ==
    IF eng.pc = "done"
    THEN [ok |-> TRUE, final_state |-> eng.state, execution_info |-> EngineInfo]
    ELSE [ok |-> FALSE, error |-> eng.error]

\* execute returns or fails, and run() finishes
RunReturn ==
    /\ pc = "running" /\ eng.pc \in {"done", "failed"}
    /\ Finish(RunMethod(self, EngineOutcome), EngineOutcome)
    /\ pc' = "ready"
    /\ eng' = IdleEngine
    /\ UNCHANGED <<heap, given, muts>>

EngineNext ==
    \/ \E mut \in BaseMutations : Construct(mut)
    \/ RunCall
    \/ IteratorStart
    \/ IterateDocument
    \/ IteratorFinish
    \/ MergeAnswers
    \/ NodeFails
    \/ RunReturn

EngineSpec == Init /\ [][EngineNext]_vars

-----------------------------------------------------------------------------
(* Properties of run() *)

\* The result mapping the most recent execute call returned.
Returned == lastCall.outcome.final_state

\* C1 as stated: run() returns the value under "answer" whenever the key is
\* present, and returns "No answer found." exactly when the key is absent.
C1_FallbackExactlyWhenAbsent ==
    last.kind = "return" =>
        /\ "answer" \in DOMAIN Returned => last.value = Returned["answer"]
        /\ last.value = FallbackAnswer <=> "answer" \notin DOMAIN Returned

\* C1 amended: run() returns the value under "answer" whenever the key is present,
\* whatever the value is, and returns "No answer found." whenever the key is
\* absent; so it returns "No answer found." exactly when the key is absent or the
\* stored answer is itself that string.
C1_AnswerOrFallback ==
    last.kind = "return" =>
        /\ "answer" \in DOMAIN Returned => last.value = Returned["answer"]
        /\ "answer" \notin DOMAIN Returned => last.value = FallbackAnswer
        /\ last.value = FallbackAnswer <=>
              \/ "answer" \notin DOMAIN Returned
              \/ Returned["answer"] = FallbackAnswer

\* A run returned a null answer that execute stored under "answer".
C1_Witness ==
    /\ last.kind = "return"
    /\ "answer" \in DOMAIN Returned
    /\ Returned["answer"] = NoneV
    /\ last.value = NoneV

\* C2: every run() makes exactly one execute call, whose input mapping has exactly
\* the keys "user_prompt" and "jsons", the prompt given at construction and the
\* source list given at construction, entry for entry in the same order.
C2_OneExecuteWithPromptAndSources ==
    [][runs' = runs + 1 =>
          /\ execCalls' = execCalls + 1
          /\ DOMAIN lastCall'.inputs = {"user_prompt", "jsons"}
          /\ lastCall'.inputs["user_prompt"] = given.prompt
          /\ lastCall'.inputs["jsons"] = [list |-> heap["source"]]
          /\ muts = 0 => lastCall'.inputs["jsons"] = [list |-> given.source]]_vars

\* Two runs were made on a list of two different sources.
C2_Witness ==
    /\ runs = 2
    /\ execCalls = 2
    /\ muts = 0
    /\ Len(given.source) = 2
    /\ given.source[1] # given.source[2]
    /\ lastCall.inputs["jsons"] = [list |-> given.source]

\* C6: when execute fails, run() fails with the same error: it does not call
\* execute again and does not return the fallback string instead.
C6_FailurePropagates ==
    /\ execCalls = runs
    /\ (runs > 0 /\ ~lastCall.outcome.ok) =>
          /\ last.kind = "raise"
          /\ last.value = lastCall.outcome.error

\* A run in which execute failed.
C6_Witness == runs > 0 /\ ~lastCall.outcome.ok /\ last.kind = "raise"

\* C7: run() always returns a string.
C7_ReturnsString == last.kind = "return" => IsStr(last.value)

\* C9: a run() in which execute fails leaves final_state and execution_info as
\* they were.
C9_FailureKeepsResults ==
    [][(runs' = runs + 1 /\ ~lastCall'.outcome.ok) =>
          /\ self'["final_state"] = self["final_state"]
          /\ self'["execution_info"] = self["execution_info"]]_vars

\* A failed run after a successful one: the results of the successful one remain.
C9_Witness ==
    /\ runs = 2
    /\ last.kind = "raise"
    /\ "final_state" \in DOMAIN lastExec
    /\ self["final_state"] = DictV(lastExec.final_state)
    /\ self["execution_info"] = lastExec.execution_info

\* C10: once an execute has succeeded, final_state and execution_info are the pair
\* the most recent successful execute returned, and a run() that returned gave
\* final_state's "answer" entry if present and "No answer found." otherwise.
C10_ResultsAreLatest ==
    /\ "final_state" \in DOMAIN lastExec =>
          /\ self["final_state"] = DictV(lastExec.final_state)
          /\ self["execution_info"] = lastExec.execution_info
    /\ last.kind = "return" =>
          last.value = Get(self["final_state"].dict, "answer", FallbackAnswer)

\* A second successful run has replaced the results of the first.
C10_Witness ==
    /\ runs = 2
    /\ last.kind = "return"
    /\ "answer" \in DOMAIN self["final_state"].dict
    /\ self["final_state"] = DictV(lastExec.final_state)

-----------------------------------------------------------------------------
(* Properties of the graph *)

\* The nodes reachable from the nodes ns in one or more steps along the edges.
RECURSIVE ReachableFrom(_, _, _)
ReachableFrom(g, ns, seen) ==
    LET next == UNION {Successors(g, n) : n \in ns}
    IN IF next \subseteq seen THEN seen
       ELSE ReachableFrom(g, next \ seen, seen \cup next)

Acyclic(g) == \A n \in NodeNames(g) : n \notin ReachableFrom(g, {n}, {})
Terminals(g) == {n \in NodeNames(g) : Successors(g, n) = {}}

\* C4: the graph has exactly two nodes, the iterator node and the merge node, one
\* edge, from the iterator node to the merge node, and the iterator node as entry
\* point; nothing leads into the iterator node or out of the merge node, so the
\* graph is acyclic and the merge node is its only terminal node.
C4_TwoNodeChain ==
    pc # "new" =>
        LET g == self["graph"]
        IN /\ Len(g.nodes) = 2
           /\ g.nodes[1].output = <<"results">>
           /\ g.nodes[2].output = <<"answer">>
           /\ g.nodes[1].node_name # g.nodes[2].node_name
           /\ Len(g.edges) = 1
           /\ g.edges[1] = <<g.nodes[1].node_name, g.nodes[2].node_name>>
           /\ g.entry_point = g.nodes[1].node_name
           /\ \A e \in EdgeSet(g) : e[2] # g.nodes[1].node_name /\ e[1] # g.nodes[2].node_name
           /\ Acyclic(g)
           /\ Terminals(g) = {g.nodes[2].node_name}

\* A graph built with a schema, a max_results option and a two-entry source list.
C4_Witness ==
    /\ pc = "ready"
    /\ given.schema # NoneV
    /\ "max_results" \in DOMAIN given.config
    /\ Len(given.source) = 2
    /\ Len(self["graph"].nodes) = 2

-----------------------------------------------------------------------------
(* Properties of one execution of the graph *)

NodesOfClass(g, c) == {n \in NodeNames(g) : NodeNamed(g, n).node_class = c}
IteratorNodes == NodesOfClass(self["graph"], "GraphIteratorNode")
MergeNodes == NodesOfClass(self["graph"], "MergeAnswersNode")
MergeHasRun == \E n \in MergeNodes : eng.nodeRuns[n] > 0

\* The per-document answers of all sources, in the order of the sources
AllAnswers ==
    [list |-> [i \in DOMAIN heap["source"] |->
                  DocumentAnswer(given.prompt, heap["source"][i])]]

\* C3: in one run the sub-pipeline runs at most once for each source, with the
\* user prompt and that source; the merge runs at most once and only when every
\* source has its answer; a finished execution has run the merge once, on the
\* answers of all sources, and holds its one final answer.
C3_FanOutThenMerge ==
    pc = "running" =>
        /\ \A n \in NodeNames(self["graph"]) : eng.nodeRuns[n] <= 1
        /\ \A i \in DOMAIN eng.docCalls :
              /\ i \in DOMAIN heap["source"]
              /\ Len(eng.docCalls[i]) <= 1
              /\ \A j \in DOMAIN eng.docCalls[i] :
                    eng.docCalls[i][j] = [prompt |-> given.prompt,
                                          source |-> heap["source"][i]]
        /\ MergeHasRun =>
              /\ DOMAIN eng.docCalls = DOMAIN heap["source"]
              /\ \A i \in DOMAIN heap["source"] : Len(eng.docCalls[i]) = 1
              /\ eng.state["results"] = AllAnswers
        /\ eng.pc = "done" =>
              /\ MergeHasRun
              /\ eng.state["answer"] = MergedAnswer(given.prompt, AllAnswers)

\* An execution over two sources has finished.
C3_Witness ==
    /\ pc = "running"
    /\ eng.pc = "done"
    /\ Len(heap["source"]) = 2
    /\ \A i \in 1..2 : Len(eng.docCalls[i]) = 1
    /\ MergeHasRun

\* Who may write a key of the state
ExpectedWriter(k) ==
    CASE k \in {"user_prompt", "jsons"} -> {"run"}
      [] k = "results" -> IteratorNodes
      [] k = "answer" -> MergeNodes
      [] OTHER -> {}

\* C8: a node is reached only when the state holds every key its input names, so
\* no execution fails for a missing input; "user_prompt" and "jsons" come from
\* run(), "results" is written only by the iterator node and "answer" only by the
\* merge node, after which no node runs.
C8_InputsPresent ==
    pc = "running" =>
        /\ eng.error # [exc |-> "MissingInput"]
        /\ eng.pc = "node" => InputKeys(CurrentNode) \subseteq DOMAIN eng.state
        /\ {"user_prompt", "jsons"} \subseteq DOMAIN eng.state
        /\ \A k \in DOMAIN eng.state : eng.writer[k] \in ExpectedWriter(k)
        /\ "results" \in DOMAIN eng.state => \A n \in IteratorNodes : eng.nodeRuns[n] = 1
        /\ "answer" \in DOMAIN eng.state => eng.pc = "done"

\* The merge node is reached with "results" in the state.
C8_Witness ==
    /\ pc = "running"
    /\ eng.pc = "node"
    /\ eng.node \in MergeNodes
    /\ "results" \in DOMAIN eng.state
    /\ eng.writer["results"] \in IteratorNodes
    /\ Len(eng.state["results"].list) = 2

====
